---- MODULE Spec2Model ----
(***************************************************************************)
(* fastapi-users-db-dynamodb: the DynamoDB user store                      *)
(* (fastapi_users_db_dynamodb/__init__.py, DynamoDBUserDatabase) and the   *)
(* DynamoDB access-token store (fastapi_users_db_dynamodb/access_token.py, *)
(* DynamoDBAccessTokenDatabase) as state machines over three tables.       *)
(*                                                                         *)
(* Python values are tagged so that conversions are not the identity:      *)
(*   a str id        [str  |-> n]      a uuid.UUID     [uuid |-> n]        *)
(*   an ISO string   [iso  |-> t]      a datetime      [dt   |-> t]        *)
(*   None            [none |-> TRUE]                                       *)
(* A dict is a function whose domain is a set of field names; an e-mail is *)
(* a sequence of characters.  A table is a function from the str form of   *)
(* its partition key to the stored item.  Every table call (get_item,      *)
(* put_item, delete_item, scan) is atomic and reads are read-your-writes,  *)
(* as in the moto-backed tests of the repository.                          *)
(*                                                                         *)
(* Spec, OAuthSpec, NoOAuthSpec, TokenSpec and StoresSpec run one call at  *)
(* a time; TokenRaceSpec and UserRaceSpec run several callers as           *)
(* coroutines that yield to each other at every awaited table call.        *)
(***************************************************************************)
EXTENDS Integers, Sequences, FiniteSets, TLC

VARIABLES
    users,      \* the users table: str id -> item
    oauth,      \* the oauth accounts table: str id -> item
    tokens,     \* the access token table: str token -> item
    cfg,        \* the constructor arguments of the store (never change)
    ret,        \* the last call of a caller that runs alone: operation,
                \* arguments, outcome, table calls made
    written,    \* history: str token -> what its latest successful create or
                \* update returned, for the tokens created and not deleted since
    inflight    \* the calls in flight when callers run concurrently:
                \* caller -> operation, arguments, position, locals, outcome

vars == <<users, oauth, tokens, cfg, ret, written, inflight>>

---------------------------------------------------------------------------
(* Bounds of the model *)

\* number of distinct user ids (as str and as UUID)
NumIds == 2
\* number of distinct oauth account ids
NumOAuthIds == 2
\* last instant of the clock (created_at and max_age are instants 0..MaxTime)
MaxTime == 2
\* number of callers that run concurrently
NumCallers == 2

---------------------------------------------------------------------------
(* Python values *)

None == [none |-> TRUE]
S(n) == [str |-> n]
U(n) == [uuid |-> n]
Iso(t) == [iso |-> t]
Dt(t) == [dt |-> t]

IsStr(v) == DOMAIN v = {"str"}
IsUUID(v) == DOMAIN v = {"uuid"}
IsIso(v) == DOMAIN v = {"iso"}
IsDt(v) == DOMAIN v = {"dt"}

StrIds == {S(n) : n \in 1..NumIds}
UUIDs == {U(n) : n \in 1..NumIds}
OAuthStrIds == {S(n) : n \in 1..NumOAuthIds}
OAuthUUIDs == {U(n) : n \in 1..NumOAuthIds}

\* dict helpers
EmptyDict == [k \in {} |-> None]
Has(d, k) == k \in DOMAIN d
DictGet(d, k) == IF k \in DOMAIN d THEN d[k] ELSE None
DictSet(d, k, v) == [x \in DOMAIN d \cup {k} |-> IF x = k THEN v ELSE d[x]]
Merge(a, b) == [x \in DOMAIN a \cup DOMAIN b |-> IF x \in DOMAIN b THEN b[x] ELSE a[x]]

\* str.lower() on one character and on a string
LowerChar(c) == IF c = "A" THEN "a" ELSE IF c = "B" THEN "b" ELSE c
Lower(s) == [i \in DOMAIN s |-> LowerChar(s[i])]

\* e-mails in several cases: two spellings of one address, and another one
Emails == {<<"a", "b">>, <<"A", "B">>, <<"b", "b">>}
Times == 0..MaxTime

---------------------------------------------------------------------------
(* Table handles: DynamoDBUserDatabase._table *)

\* a store that misses a region in no case, to compare TableNoRegion with
RegionNeverMissed == FALSE
\* "if region is None: raise ValueError(...)" when no resource was supplied
TableNoRegion == cfg.resource = None /\ cfg.region = None

\* a block that leaves its session resource open, to compare Scoped with
ScopedLeaking(name, calls) ==
    IF cfg.resource # None
    THEN <<<<name, "Table">>>> \o calls
    ELSE <<<<"session", "open">>, <<name, "Table">>>> \o calls
\* the calls an operation makes inside "async with self._table(name, region)":
\* with a long-lived resource only Table(name); otherwise a session resource
\* is opened before and closed after the block, however the block is left
Scoped(name, calls) ==
    IF cfg.resource # None
    THEN <<<<name, "Table">>>> \o calls
    ELSE <<<<"session", "open">>, <<name, "Table">>>> \o calls \o <<<<"session", "close">>>>

\* the outcome of one operation
Outcome(u, o, err, val, log) == [users |-> u, oauth |-> o, error |-> err, value |-> val, log |-> log]
Raise(err, log) == Outcome(users, oauth, err, None, log)
RegionError == "ValueError: region must be specified"


---------------------------------------------------------------------------
(* The table service: point reads and writes, and a scan *)

\* table.get_item(Key=...).get("Item")
get_item(table, key) == IF key \in DOMAIN table THEN table[key] ELSE None

\* a put_item whose write is undone, to compare put_item with
put_item_rolled_back(table, item, pk) == table
\* table.put_item(Item=item): the item replaces whatever its key held
put_item(table, item, pk) == DictSet(table, item[pk], item)

\* a delete_item that removes nothing, to compare delete_item with
delete_item_kept(table, key) == table
\* table.delete_item(Key=...): no error when the key is absent
delete_item(table, key) == [k \in DOMAIN table \ {key} |-> table[k]]

\* table.scan(FilterExpression=..., Limit=1): Limit bounds the items the scan
\* EVALUATES, the filter is applied to those afterwards.  `first` is the one
\* item the scan evaluates (the service's scan order is not the caller's to
\* choose), None for an empty table.
ScanStarts(table) == IF DOMAIN table = {} THEN {None} ELSE DOMAIN table
\* Attr(k).eq(v) for every k of the filter, joined with "&"
FilterExpression(item, filter) ==
    \A k \in DOMAIN filter : Has(item, k) /\ item[k] = filter[k]
scan_limit_1(table, first, filter) ==
    IF first # None /\ FilterExpression(table[first], filter)
    THEN <<table[first]>> ELSE <<>>

---------------------------------------------------------------------------
(* DynamoDBUserDatabase: helpers *)

\* an id passed on in the type it was given in, to compare ensure_id_str with
ensure_id_as_given(value) == value
\* str(value)
ensure_id_str(value) == IF IsUUID(value) THEN S(value.uuid) ELSE value

\* the id of a user object, None when it has none (the caller raises)
extract_id_from_user(user_obj) ==
    LET idv == DictGet(user_obj, "id")
    IN IF idv = None THEN None ELSE ensure_id_str(idv)

\* the e-mail left in the case it was given in, to compare ensure_email_lower with
ensure_email_as_given(data) == data
\* data["email"] = data["email"].lower() when present
ensure_email_lower(data) ==
    IF Has(data, "email") THEN DictSet(data, "email", Lower(data.email)) ELSE data

\* user_table(**item): a str id parsed to a UUID, defaults filled in, the
\* required fields checked
item_to_user(item) ==
    IF item = None THEN [error |-> "", value |-> None]
    ELSE IF ~(Has(item, "email") /\ Has(item, "hashed_password"))
    THEN [error |-> "ValidationError", value |-> None]
    ELSE LET typed == IF Has(item, "id") /\ IsStr(item.id)
                      THEN DictSet(item, "id", U(item.id.str)) ELSE item
             defaults == IF cfg.user_table = "UserOAuth"
                         THEN [is_active |-> TRUE, is_superuser |-> FALSE,
                               is_verified |-> FALSE, oauth_accounts |-> <<>>]
                         ELSE [is_active |-> TRUE, is_superuser |-> FALSE,
                               is_verified |-> FALSE]
         IN [error |-> "", value |-> Merge(defaults, typed)]

\* a configuration test that looks at the class only, to compare OAuthNotConfigured with
OAuthClassMissing == cfg.oauth_account_table = None
\* self.oauth_account_table is None or self.oauth_account_table_name is None
OAuthNotConfigured ==
    cfg.oauth_account_table = None \/ cfg.oauth_account_table_name = None

\* the merge taken the other way round, to compare shallow_merge with
merge_current_wins(current, update_dict) == Merge(update_dict, current)
\* {**current, **update_dict}
shallow_merge(current, update_dict) == Merge(current, update_dict)

---------------------------------------------------------------------------
(* DynamoDBUserDatabase: the operations, each as the outcome of one call *)

get(id) ==
    LET id_str == ensure_id_str(id)
    IN IF TableNoRegion THEN Raise(RegionError, <<>>)
       ELSE LET u == item_to_user(get_item(users, id_str))
            IN Outcome(users, oauth, u.error, u.value,
                       Scoped("users", <<<<"users", "get_item">>>>))

get_by_email(email, first) ==
    LET email_norm == Lower(email)
    IN IF TableNoRegion THEN Raise(RegionError, <<>>)
       ELSE LET items == scan_limit_1(users, first, [email |-> email_norm])
                u == IF items = <<>> THEN [error |-> "", value |-> None]
                     ELSE item_to_user(items[1])
            IN Outcome(users, oauth, u.error, u.value,
                       Scoped("users", <<<<"users", "scan">>>>))

create(create_dict, uuid4) ==
    LET item == ensure_email_lower(
                    IF ~Has(create_dict, "id") \/ create_dict.id = None
                    THEN DictSet(create_dict, "id", uuid4)
                    ELSE DictSet(create_dict, "id", ensure_id_str(create_dict.id)))
    IN IF TableNoRegion THEN Raise(RegionError, <<>>)
       ELSE LET users1 == put_item(users, item, "id")
                read == get_item(users1, item.id)
                stored == IF read = None THEN item ELSE read
                u == item_to_user(stored)
            IN Outcome(users1, oauth, u.error, u.value,
                       Scoped("users", <<<<"users", "put_item">>, <<"users", "get_item">>>>))

update(user, update_dict) ==
    LET user_id == extract_id_from_user(user)
    IN IF user_id = None THEN Raise("ValueError: User object has no 'id' field", <<>>)
       ELSE IF TableNoRegion THEN Raise(RegionError, <<>>)
       ELSE LET current == get_item(users, user_id)
            IN IF current = None
               THEN Raise("ValueError: User not found",
                          Scoped("users", <<<<"users", "get_item">>>>))
               ELSE LET merged == ensure_email_lower(shallow_merge(current, update_dict))
                        users1 == put_item(users, merged, "id")
                        read == get_item(users1, user_id)
                        refreshed == IF read = None THEN merged ELSE read
                        u == item_to_user(refreshed)
                    IN Outcome(users1, oauth, u.error, u.value,
                               Scoped("users", <<<<"users", "get_item">>,
                                                 <<"users", "put_item">>,
                                                 <<"users", "get_item">>>>))

delete(user) ==
    LET user_id == extract_id_from_user(user)
    IN IF user_id = None THEN Raise("ValueError: User object has no 'id' field", <<>>)
       ELSE IF TableNoRegion THEN Raise(RegionError, <<>>)
       ELSE Outcome(delete_item(users, user_id), oauth, "", None,
                    Scoped("users", <<<<"users", "delete_item">>>>))


\* the id of an oauth account object, None when it has none
oauth_id_of(oauth_account) == DictGet(oauth_account, "id")

get_by_oauth_account(oauth_name, account_id, first) ==
    IF OAuthNotConfigured THEN Raise("NotImplementedError", <<>>)
       ELSE IF TableNoRegion THEN Raise(RegionError, <<>>)
       ELSE LET items == scan_limit_1(oauth, first,
                                     [oauth_name |-> oauth_name, account_id |-> account_id])
            IN IF items = <<>> \/ DictGet(items[1], "user_id") = None
               THEN Outcome(users, oauth, "", None,
                            Scoped("oauth", <<<<"oauth", "scan">>>>))
               ELSE LET g == get(items[1].user_id)
                    IN Outcome(users, oauth, g.error, g.value,
                               Scoped("oauth", <<<<"oauth", "scan">>>> \o g.log))

\* `uuid4` is the id generated when the fields carry none; `constructs` says
\* whether oauth_account_table(**oauth_item) builds an object (an exception
\* there is swallowed and nothing is appended)
add_oauth_account(user, create_dict, uuid4, constructs) ==
    LET oauth_item0 == IF ~Has(create_dict, "id") \/ create_dict.id = None
                       THEN DictSet(create_dict, "id", uuid4) ELSE create_dict
        user_id == extract_id_from_user(user)
        oauth_item == DictSet(oauth_item0, "user_id", user_id)
    IN IF OAuthNotConfigured THEN Raise("NotImplementedError", <<>>)
       ELSE IF user_id = None THEN Raise("ValueError: User object has no 'id' field", <<>>)
       ELSE IF TableNoRegion THEN Raise(RegionError, <<>>)
       ELSE IF ~IsStr(oauth_item.id)
       THEN Raise("TypeError: Unsupported type", Scoped("oauth", <<<<"oauth", "put_item">>>>))
       ELSE LET oauth1 == put_item(oauth, oauth_item, "id")
                g == get(user_id)
                log == Scoped("oauth", <<<<"oauth", "put_item">>>>) \o g.log
            IN IF g.error # "" THEN Outcome(users, oauth1, g.error, None, log)
               ELSE IF g.value = None
               THEN Outcome(users, oauth1, "ValueError: Refreshed user is None", None, log)
               ELSE IF constructs /\ Has(g.value, "oauth_accounts")
               THEN Outcome(users, oauth1, "",
                            DictSet(g.value, "oauth_accounts",
                                    Append(g.value.oauth_accounts, oauth_item)), log)
               ELSE Outcome(users, oauth1, "", g.value, log)

update_oauth_account(user, oauth_account, update_dict) ==
    LET oauth_id == oauth_id_of(oauth_account)
        oauth_id_str == ensure_id_str(oauth_id)
    IN IF OAuthNotConfigured THEN Raise("NotImplementedError", <<>>)
       ELSE IF oauth_id = None THEN Raise("ValueError: oauth_account has no 'id' field", <<>>)
       ELSE IF TableNoRegion THEN Raise(RegionError, <<>>)
       ELSE LET current == get_item(oauth, oauth_id_str)
            IN IF current = None
               THEN Raise("ValueError: OAuth account not found",
                          Scoped("oauth", <<<<"oauth", "get_item">>>>))
               ELSE LET merged == shallow_merge(current, update_dict)
                        oauth1 == put_item(oauth, merged, "id")
                        log1 == Scoped("oauth", <<<<"oauth", "get_item">>,
                                                  <<"oauth", "put_item">>>>)
                        user_id == extract_id_from_user(user)
                        g == get(user_id)
                    IN IF user_id = None
                       THEN Outcome(users, oauth1,
                                    "ValueError: User object has no 'id' field", None, log1)
                       ELSE IF g.error # ""
                       THEN Outcome(users, oauth1, g.error, None, log1 \o g.log)
                       ELSE IF g.value = None
                       THEN Outcome(users, oauth1,
                                    "ValueError: Could not cast DB item to User model",
                                    None, log1 \o g.log)
                       ELSE Outcome(users, oauth1, "", g.value, log1 \o g.log)


---------------------------------------------------------------------------
(* Arguments the calls are made with *)

\* a field that may be left out of a dict: absent, or one of `values`
Opt(k, values) == {EmptyDict} \cup {[x \in {k} |-> v] : v \in values}

\* create_dict of create: e-mail and password, maybe an id (None, a str or a
\* UUID), maybe is_superuser
CreateDicts ==
    {Merge([email |-> e, hashed_password |-> "guinevere"], Merge(i, su)) :
        e \in Emails,
        i \in Opt("id", {None} \cup StrIds \cup UUIDs),
        su \in Opt("is_superuser", {TRUE})}

\* update_dict of update: any of e-mail and is_superuser (the key is not a
\* field the callers of update pass)
UpdateDicts ==
    {Merge(e, su) : e \in Opt("email", Emails), su \in Opt("is_superuser", {TRUE})}

\* user objects as the operations read them: only the id is looked at
UserArgs == {[id |-> v] : v \in UUIDs \cup {None}}

\* ids a lookup is made with
GetIds == StrIds \cup UUIDs

\* oauth account fields
OAuthNames == {"google", "github"}
AccountIds == {"acc1", "acc2"}
LinkedPairs == (OAuthNames \X AccountIds) \ {<<"github", "acc2">>}
OAuthCreateDicts ==
    {Merge([oauth_name |-> p[1], account_id |-> p[2], access_token |-> "TOKEN"], i) :
        p \in LinkedPairs, i \in Opt("id", {None, U(1), S(1)})}
OAuthUpdateDicts == Opt("access_token", {"NEW_TOKEN"})
OAuthArgs == {[id |-> v] : v \in OAuthUUIDs \cup {None}}

\* create_dict of create where the OAuth operations are exercised
PlainCreateDicts == {[email |-> <<"A", "B">>, hashed_password |-> "guinevere"]}

---------------------------------------------------------------------------
(* The user store as a state machine *)

Called(op, args, r) ==
    [op |-> op, args |-> args, error |-> r.error, value |-> r.value, log |-> r.log]

Apply(op, args, r) ==
    /\ users' = r.users
    /\ oauth' = r.oauth
    /\ ret' = Called(op, args, r)
    /\ UNCHANGED <<tokens, cfg, written, inflight>>

\* uuid.uuid4(), drawn when the fields carry no id: an id no item of the table has
Generated(create_dict, table, ids) ==
    IF ~Has(create_dict, "id") \/ create_dict.id = None THEN ids \ DOMAIN table ELSE {None}

Get(id) == Apply("get", [id |-> id], get(id))

GetByEmail(email) ==
    \E first \in ScanStarts(users) :
        Apply("get_by_email", [email |-> email], get_by_email(email, first))

Create(create_dict) ==
    \E uuid4 \in Generated(create_dict, users, StrIds) :
        Apply("create", [create_dict |-> create_dict], create(create_dict, uuid4))

Update(user, update_dict) ==
    Apply("update", [user |-> user, update_dict |-> update_dict], update(user, update_dict))

Delete(user) == Apply("delete", [user |-> user], delete(user))

GetByOAuthAccount(oauth_name, account_id) ==
    \E first \in ScanStarts(oauth) :
        Apply("get_by_oauth_account", [oauth |-> oauth_name, account_id |-> account_id],
              get_by_oauth_account(oauth_name, account_id, first))

AddOAuthAccount(user, create_dict) ==
    \E uuid4 \in Generated(create_dict, oauth, OAuthStrIds), constructs \in BOOLEAN :
        Apply("add_oauth_account",
              [user |-> user, create_dict |-> create_dict, constructs |-> constructs],
              add_oauth_account(user, create_dict, uuid4, constructs))

UpdateOAuthAccount(user, oauth_account, update_dict) ==
    Apply("update_oauth_account",
          [user |-> user, oauth_account |-> oauth_account, update_dict |-> update_dict],
          update_oauth_account(user, oauth_account, update_dict))

\* constructor arguments
Resource == [resource |-> "dynamodb"]
Region == [region |-> "eu-central-1"]
OAuthTable == [cls |-> "OAuthAccount"]
OAuthTableName == [name |-> "oauth_accounts"]
Connections == {<<None, None>>, <<None, Region>>, <<Resource, None>>}
Store(user_table, oauth_table, oauth_name, connection) ==
    [user_table |-> user_table, oauth_account_table |-> oauth_table,
     oauth_account_table_name |-> oauth_name,
     resource |-> connection[1], region |-> connection[2]]

NoCall == [op |-> "init", args |-> EmptyDict, error |-> "", value |-> None, log |-> <<>>]

InitTables ==
    /\ users = EmptyDict
    /\ oauth = EmptyDict
    /\ tokens = EmptyDict
    /\ ret = NoCall
    /\ written = EmptyDict
    /\ inflight = EmptyDict

---------------------------------------------------------------------------
(* Spec: a user store constructed with the users table only *)
Init ==
    /\ InitTables
    /\ cfg \in {Store("User", None, None, c) : c \in Connections}

Next ==
    \/ \E id \in GetIds : Get(id)
    \/ \E email \in Emails : GetByEmail(email)
    \/ \E create_dict \in CreateDicts : Create(create_dict)
    \/ \E user \in UserArgs, update_dict \in UpdateDicts : Update(user, update_dict)
    \/ \E user \in UserArgs : Delete(user)

Spec == Init /\ [][Next]_vars

\* the three OAuth operations
OAuthCalls ==
    \/ \E oauth_name \in OAuthNames, account_id \in AccountIds :
          GetByOAuthAccount(oauth_name, account_id)
    \/ \E user \in UserArgs, create_dict \in OAuthCreateDicts :
          AddOAuthAccount(user, create_dict)
    \/ \E user \in UserArgs, oauth_account \in OAuthArgs, update_dict \in OAuthUpdateDicts :
          UpdateOAuthAccount(user, oauth_account, update_dict)

\* OAuthSpec: a user store constructed with an OAuth table and a region
OAuthInit ==
    /\ InitTables
    /\ cfg = Store("UserOAuth", OAuthTable, OAuthTableName, <<None, Region>>)

OAuthNext ==
    \/ \E id \in UUIDs : Get(id)
    \/ \E email \in {<<"a", "b">>} : GetByEmail(email)
    \/ \E create_dict \in PlainCreateDicts : Create(create_dict)
    \/ OAuthCalls

OAuthSpec == OAuthInit /\ [][OAuthNext]_vars

\* NoOAuthSpec: a user store whose OAuth table class or table name is missing
NoOAuthInit ==
    /\ InitTables
    /\ cfg \in {Store("User", o[1], o[2], c) :
                   o \in {<<None, None>>, <<None, OAuthTableName>>, <<OAuthTable, None>>},
                   c \in Connections}

NoOAuthNext ==
    \/ \E create_dict \in PlainCreateDicts : Create(create_dict)
    \/ \E id \in UUIDs : Get(id)
    \/ OAuthCalls

NoOAuthSpec == NoOAuthInit /\ [][NoOAuthNext]_vars

---------------------------------------------------------------------------
(* DynamoDBAccessTokenDatabase *)

\* the partition key of the access token table
primary_key == "token"

\* str(token)
ensure_token(token) == IF IsUUID(token) THEN S(token.uuid) ELSE token

\* datetime.isoformat() and datetime.fromisoformat()
isoformat(d) == Iso(d.dt)
fromisoformat(s) == Dt(s.iso)

\* access_token_table(**item): a str user_id parsed to a UUID, a str
\* created_at parsed to a datetime
item_to_access_token(item) ==
    IF item = None THEN None
    ELSE LET typed == IF Has(item, "user_id") /\ IsStr(item.user_id)
                      THEN DictSet(item, "user_id", U(item.user_id.str)) ELSE item
         IN IF Has(typed, "created_at") /\ IsIso(typed.created_at)
            THEN DictSet(typed, "created_at", fromisoformat(typed.created_at))
            ELSE typed

\* the coercions of update: a UUID user_id to str, a datetime created_at to
\* its ISO string
storable(token_dict) ==
    LET d1 == IF Has(token_dict, "user_id") /\ IsUUID(token_dict.user_id)
              THEN DictSet(token_dict, "user_id", ensure_id_str(token_dict.user_id))
              ELSE token_dict
    IN IF Has(d1, "created_at") /\ IsDt(d1.created_at)
       THEN DictSet(d1, "created_at", isoformat(d1.created_at)) ELSE d1

\* writes with no condition, to compare the two conditions below with
always_writable(table, key) == TRUE
upsert(table, key) == TRUE
\* put_item(..., ConditionExpression="attribute_not_exists(#token)") and
\* "attribute_exists(#token)": the write is refused when the condition fails
attribute_not_exists(table, key) == key \notin DOMAIN table
attribute_exists(table, key) == key \in DOMAIN table

\* a comparison that also rejects a token created exactly at max_age, to compare older with
older_or_equal(created_at, max_age) == created_at.dt <= max_age.dt
\* created_at < max_age
older(created_at, max_age) == created_at.dt < max_age.dt

TokenOutcome(t, err, val, log) == [tokens |-> t, error |-> err, value |-> val, log |-> log]
TokenRaise(err, log) == TokenOutcome(tokens, err, None, log)

get_by_token(token, max_age) ==
    IF TableNoRegion THEN TokenRaise(RegionError, <<>>)
    ELSE LET item == get_item(tokens, ensure_token(token))
             log == Scoped("tokens", <<<<"tokens", "get_item">>>>)
         IN IF item = None THEN TokenOutcome(tokens, "", None, log)
            ELSE IF max_age # None /\ older(fromisoformat(item.created_at), max_age)
            THEN TokenOutcome(tokens, "", None, log)
            ELSE TokenOutcome(tokens, "", item_to_access_token(item), log)

\* `uuid4` is the token generated when the fields carry none, `clock` the
\* reading of datetime.now(timezone.utc); a supplied token is written as it
\* is, and put_item refuses to serialize one that is not a str
access_token_create(create_dict, uuid4, clock) ==
    LET item1 == IF ~Has(create_dict, "token") \/ create_dict.token = None
                 THEN DictSet(create_dict, "token", uuid4) ELSE create_dict
        item2 == IF ~Has(item1, "created_at") \/ ~IsIso(item1.created_at)
                 THEN DictSet(item1, "created_at", isoformat(Dt(clock))) ELSE item1
        item == IF Has(item2, "user_id") /\ IsUUID(item2.user_id)
                THEN DictSet(item2, "user_id", ensure_id_str(item2.user_id)) ELSE item2
        log == Scoped("tokens", <<<<"tokens", "put_item">>>>)
    IN IF TableNoRegion THEN TokenRaise(RegionError, <<>>)
       ELSE IF ~IsStr(item[primary_key])
       THEN TokenRaise("TypeError: Unsupported type", log)
       ELSE IF ~attribute_not_exists(tokens, item[primary_key])
       THEN TokenRaise("ValueError: Token already exists.", log)
       ELSE TokenOutcome(put_item(tokens, item, primary_key), "",
                         item_to_access_token(item), log)

access_token_update(access_token, update_dict) ==
    LET token_dict == storable(Merge(access_token, update_dict))
        log == Scoped("tokens", <<<<"tokens", "put_item">>>>)
    IN IF TableNoRegion THEN TokenRaise(RegionError, <<>>)
       ELSE IF ~attribute_exists(tokens, token_dict[primary_key])
       THEN TokenRaise("ValueError: Token does not exist.", log)
       ELSE TokenOutcome(put_item(tokens, token_dict, primary_key), "",
                         item_to_access_token(token_dict), log)

access_token_delete(access_token) ==
    LET token == DictGet(access_token, "token")
        log == Scoped("tokens", <<<<"tokens", "delete_item">>>>)
    IN IF token = None THEN TokenRaise("ValueError: access_token has no 'token' field", <<>>)
       ELSE IF TableNoRegion THEN TokenRaise(RegionError, <<>>)
       ELSE IF ~attribute_exists(tokens, ensure_token(token))
       THEN TokenRaise("ValueError: Token does not exist.", log)
       ELSE TokenOutcome(delete_item(tokens, ensure_token(token)), "", None, log)

---------------------------------------------------------------------------
(* TokenSpec: the access token store as a state machine *)

TokenValues == {S("TOKEN"), S("OTHER_TOKEN")}
TokenUserIds == {U(1)}

\* create_dict of create: a user id, maybe a token value, maybe a created_at
\* (a datetime or an ISO string)
TokenCreateDicts ==
    {Merge([user_id |-> u], Merge(t, c)) :
        u \in TokenUserIds,
        t \in Opt("token", {None} \cup TokenValues),
        c \in Opt("created_at", {Dt(x) : x \in Times} \cup {Iso(x) : x \in Times})}

\* token objects as returned by the store
TokenArgs ==
    {[token |-> t, user_id |-> U(1), created_at |-> Dt(x)] : t \in TokenValues, x \in Times}

TokenUpdateDicts ==
    {Merge(u, c) : u \in Opt("user_id", {U(2)}), c \in Opt("created_at", {Dt(x) : x \in Times})}

MaxAges == {None} \cup {Dt(x) : x \in Times}

\* the history of the successful calls: a create makes its token live, an
\* update of a live token replaces what is remembered, a delete ends it
Remembered(value) == [created_at |-> value.created_at, user_id |-> value.user_id]
History(op, args, r) ==
    IF r.error # "" THEN written
    ELSE IF op = "access_token.create"
    THEN DictSet(written, ensure_token(r.value.token), Remembered(r.value))
    ELSE IF op = "access_token.update"
    THEN IF ensure_token(r.value.token) \in DOMAIN written
         THEN DictSet(written, ensure_token(r.value.token), Remembered(r.value))
         ELSE written
    ELSE IF op = "access_token.delete"
    THEN [t \in DOMAIN written \ {ensure_token(args.access_token.token)} |-> written[t]]
    ELSE written

TokenApply(op, args, r) ==
    /\ tokens' = r.tokens
    /\ ret' = Called(op, args, r)
    /\ written' = History(op, args, r)
    /\ UNCHANGED <<users, oauth, cfg, inflight>>

GetByToken(token, max_age) ==
    TokenApply("access_token.get_by_token", [token |-> token, max_age |-> max_age],
               get_by_token(token, max_age))

TokenCreate(create_dict) ==
    \E uuid4 \in Generated(create_dict, tokens, TokenValues) :
      \E clock \in IF Has(create_dict, "created_at") /\ IsIso(create_dict.created_at)
                   THEN {0} ELSE Times :
        TokenApply("access_token.create", [create_dict |-> create_dict, clock |-> clock],
                   access_token_create(create_dict, uuid4, clock))

TokenUpdate(access_token, update_dict) ==
    TokenApply("access_token.update", [access_token |-> access_token, update_dict |-> update_dict],
               access_token_update(access_token, update_dict))

TokenDelete(access_token) ==
    TokenApply("access_token.delete", [access_token |-> access_token], access_token_delete(access_token))

TokenInit ==
    /\ InitTables
    /\ cfg \in {Store("AccessToken", None, None, c) : c \in Connections}

TokenNext ==
    \/ \E token \in TokenValues, max_age \in MaxAges : GetByToken(token, max_age)
    \/ \E create_dict \in TokenCreateDicts : TokenCreate(create_dict)
    \/ \E access_token \in TokenArgs, update_dict \in TokenUpdateDicts :
          TokenUpdate(access_token, update_dict)
    \/ \E access_token \in TokenArgs \cup {[token |-> None]} : TokenDelete(access_token)

TokenSpec == TokenInit /\ [][TokenNext]_vars

---------------------------------------------------------------------------
(* TokenRaceSpec: callers of one access token store running concurrently.  *)
(* A call is a coroutine: it prepares its item, enters "async with         *)
(* self._table(...)", awaits its one table call and returns.  Other calls  *)
(* run at each await.                                                      *)

Callers == 1..NumCallers

\* a call that has been made and has not run yet; `after` is the set of
\* calls that had returned when this one entered its table block, `current`
\* and `merged` are the locals of update
Pending(op, args) ==
    [op |-> op, args |-> args, pc |-> "called", error |-> "", value |-> None,
     after |-> {}, current |-> None, merged |-> None]

\* the table the callers start from: OTHER_TOKEN is stored, TOKEN is not
SeededTokens ==
    DictSet(EmptyDict, S("OTHER_TOKEN"),
            [token |-> S("OTHER_TOKEN"), user_id |-> S(1), created_at |-> Iso(0)])

\* the calls caller c may make: it writes its own number as the user id
TokenRaceCalls(c) ==
    {Pending("access_token.create", [create_dict |-> [token |-> t, user_id |-> U(c)], clock |-> 0]) :
        t \in TokenValues}
    \cup {Pending("access_token.update",
                  [access_token |-> [token |-> t, user_id |-> U(1), created_at |-> Dt(0)],
                   update_dict |-> [user_id |-> U(c)]]) : t \in TokenValues}
    \cup {Pending("access_token.delete",
                  [access_token |-> [token |-> t, user_id |-> U(1), created_at |-> Dt(0)]]) :
              t \in TokenValues}

Returned == {c \in DOMAIN inflight : inflight[c].pc = "done"}

\* "async with self._table(self.table_name, self._resource_region) as table"
TokenCallBegin(c) ==
    /\ inflight[c].pc = "called"
    /\ inflight' = [inflight EXCEPT ![c].pc = "table", ![c].after = Returned]
    /\ UNCHANGED <<users, oauth, tokens, cfg, ret, written>>

\* the call's conditional put_item or delete_item, and its return or raise
TokenCallOutcome(call) ==
    IF call.op = "access_token.create"
    THEN access_token_create(call.args.create_dict, None, call.args.clock)
    ELSE IF call.op = "access_token.update"
    THEN access_token_update(call.args.access_token, call.args.update_dict)
    ELSE access_token_delete(call.args.access_token)

TokenCallWrite(c) ==
    /\ inflight[c].pc = "table"
    /\ LET r == TokenCallOutcome(inflight[c])
       IN /\ tokens' = r.tokens
          /\ inflight' = [inflight EXCEPT ![c].pc = "done", ![c].error = r.error,
                                          ![c].value = r.value]
          /\ written' = History(inflight[c].op, inflight[c].args, r)
    /\ UNCHANGED <<users, oauth, cfg, ret>>

TokenRaceInit ==
    /\ users = EmptyDict
    /\ oauth = EmptyDict
    /\ tokens = SeededTokens
    /\ ret = NoCall
    /\ written = DictSet(EmptyDict, S("OTHER_TOKEN"), [created_at |-> Dt(0), user_id |-> U(1)])
    /\ cfg = Store("AccessToken", None, None, <<None, Region>>)
    /\ inflight \in [Callers -> UNION {TokenRaceCalls(c) : c \in Callers}]
    /\ \A c \in Callers : inflight[c] \in TokenRaceCalls(c)

TokenRaceNext ==
    \/ \E c \in Callers : TokenCallBegin(c)
    \/ \E c \in Callers : TokenCallWrite(c)

TokenRaceSpec == TokenRaceInit /\ [][TokenRaceNext]_vars

---------------------------------------------------------------------------
(* UserRaceSpec: callers of update and delete of one user store running    *)
(* concurrently.  update awaits three table calls, get_item, put_item and  *)
(* get_item, and other calls run at each await.                            *)

\* the table the callers start from: user 1 is stored, user 2 is not
SeededUsers ==
    DictSet(EmptyDict, S(1),
            [id |-> S(1), email |-> <<"a", "b">>, hashed_password |-> "guinevere"])

RaceUsers == {[id |-> U(1)], [id |-> U(2)]}
RaceUpdateDicts == {[email |-> <<"b", "b">>], [is_superuser |-> TRUE]}
UserRaceCalls ==
    {Pending("update", [user |-> u, update_dict |-> d]) : u \in RaceUsers, d \in RaceUpdateDicts}
    \cup {Pending("delete", [user |-> u]) : u \in RaceUsers}

\* the call returns (error "") or raises
Return(c, err, val) ==
    [inflight EXCEPT ![c].pc = "done", ![c].error = err, ![c].value = val]

\* user_id = self._extract_id_from_user(user), then
\* "async with self._table(self.user_table_name, self._resource_region)"
UserCallBegin(c) ==
    /\ inflight[c].pc = "called"
    /\ inflight' =
          IF extract_id_from_user(inflight[c].args.user) = None
          THEN Return(c, "ValueError: User object has no 'id' field", None)
          ELSE IF TableNoRegion THEN Return(c, RegionError, None)
          ELSE [inflight EXCEPT ![c].pc = IF inflight[c].op = "update" THEN "get" ELSE "delete",
                                ![c].after = Returned]
    /\ UNCHANGED <<users, oauth, tokens, cfg, ret, written>>

\* update: current = (await table.get_item(Key={"id": user_id})).get("Item", {})
UserCallGet(c) ==
    /\ inflight[c].pc = "get"
    /\ LET current == get_item(users, extract_id_from_user(inflight[c].args.user))
       IN inflight' = IF current = None THEN Return(c, "ValueError: User not found", None)
                      ELSE [inflight EXCEPT ![c].pc = "put", ![c].current = current]
    /\ UNCHANGED <<users, oauth, tokens, cfg, ret, written>>

\* update: merged = {**current, **update_dict}, lowered, await table.put_item(Item=merged)
UserCallPut(c) ==
    /\ inflight[c].pc = "put"
    /\ LET merged == ensure_email_lower(
                         shallow_merge(inflight[c].current, inflight[c].args.update_dict))
       IN /\ users' = put_item(users, merged, "id")
          /\ inflight' = [inflight EXCEPT ![c].pc = "refetch", ![c].merged = merged]
    /\ UNCHANGED <<oauth, tokens, cfg, ret, written>>

\* update: refreshed = (await table.get_item(Key={"id": user_id})).get("Item", merged)
\* and the return of self._item_to_user(refreshed)
UserCallRefetch(c) ==
    /\ inflight[c].pc = "refetch"
    /\ LET read == get_item(users, extract_id_from_user(inflight[c].args.user))
           refreshed == IF read = None THEN inflight[c].merged ELSE read
           u == item_to_user(refreshed)
       IN inflight' = Return(c, u.error, u.value)
    /\ UNCHANGED <<users, oauth, tokens, cfg, ret, written>>

\* delete: await table.delete_item(Key={"id": user_id})
UserCallDelete(c) ==
    /\ inflight[c].pc = "delete"
    /\ users' = delete_item(users, extract_id_from_user(inflight[c].args.user))
    /\ inflight' = Return(c, "", None)
    /\ UNCHANGED <<oauth, tokens, cfg, ret, written>>

UserRaceInit ==
    /\ users = SeededUsers
    /\ oauth = EmptyDict
    /\ tokens = EmptyDict
    /\ ret = NoCall
    /\ written = EmptyDict
    /\ cfg = Store("User", None, None, <<None, Region>>)
    /\ inflight \in [Callers -> UserRaceCalls]

UserRaceNext ==
    \/ \E c \in Callers : UserCallBegin(c)
    \/ \E c \in Callers : UserCallGet(c)
    \/ \E c \in Callers : UserCallPut(c)
    \/ \E c \in Callers : UserCallRefetch(c)
    \/ \E c \in Callers : UserCallDelete(c)

UserRaceSpec == UserRaceInit /\ [][UserRaceNext]_vars

---------------------------------------------------------------------------
(* StoresSpec: one store, either a user store with an OAuth table or an    *)
(* access token store, constructed with any of the connections, and every  *)
(* operation of it called with ids as str, as UUID and missing.            *)

OneEmailCreateDicts ==
    {Merge(d, i) : d \in PlainCreateDicts, i \in Opt("id", {None, S(1), U(2)})}
OneUser == {[id |-> U(1)], [id |-> None]}
OnePairCreateDicts ==
    {Merge([oauth_name |-> "google", account_id |-> "acc1", access_token |-> "TOKEN"], i) :
        i \in Opt("id", {None, U(1), S(1)})}
OneToken == [token |-> S("TOKEN"), user_id |-> U(1), created_at |-> Dt(0)]
OneTokenCreateDicts ==
    {Merge([user_id |-> U(1)], t) : t \in Opt("token", {None, S("TOKEN"), U(1)})}

IsUserStore == cfg.user_table = "UserOAuth"
IsTokenStore == cfg.user_table = "AccessToken"

StoresInit ==
    /\ InitTables
    /\ cfg \in {Store("UserOAuth", OAuthTable, OAuthTableName, c) : c \in Connections}
              \cup {Store("AccessToken", None, None, c) : c \in Connections}

StoresNext ==
    \/ IsUserStore /\ Get(U(1))
    \/ IsUserStore /\ GetByEmail(<<"a", "b">>)
    \/ IsUserStore /\ \E create_dict \in OneEmailCreateDicts : Create(create_dict)
    \/ IsUserStore /\ \E user \in OneUser : Update(user, [is_superuser |-> TRUE])
    \/ IsUserStore /\ \E user \in OneUser : Delete(user)
    \/ IsUserStore /\ GetByOAuthAccount("google", "acc1")
    \/ IsUserStore /\ \E user \in OneUser, create_dict \in OnePairCreateDicts :
                          AddOAuthAccount(user, create_dict)
    \/ IsUserStore /\ \E user \in OneUser, oauth_account \in OAuthArgs :
                          UpdateOAuthAccount(user, oauth_account, [access_token |-> "NEW_TOKEN"])
    \/ IsTokenStore /\ \E max_age \in {None, Dt(MaxTime)} : GetByToken(S("TOKEN"), max_age)
    \/ IsTokenStore /\ \E create_dict \in OneTokenCreateDicts : TokenCreate(create_dict)
    \/ IsTokenStore /\ TokenUpdate(OneToken, [user_id |-> U(2)])
    \/ IsTokenStore /\ \E access_token \in {OneToken, [token |-> None]} :
                           TokenDelete(access_token)

StoresSpec == StoresInit /\ [][StoresNext]_vars

---------------------------------------------------------------------------
(* Properties of the user store (Spec) *)

\* the value a stored or returned field has for an input value
AsStored(k, v) == IF k = "email" THEN Lower(v) ELSE v
NoIdGiven(create_dict) == ~Has(create_dict, "id") \/ create_dict.id = None
Works == ~TableNoRegion

\* C1: a create whose input carries no id (or id None) returns an entity with
\* a non-null id, and a get by that id made next returns an entity equal to
\* the input on every supplied field, the e-mail compared lowercased.
C1_CreateThenGet ==
    (ret.op = "create" /\ NoIdGiven(ret.args.create_dict) /\ Works) =>
        /\ ret.error = ""
        /\ ret.value # None
        /\ ret.value.id # None
        /\ IsUUID(ret.value.id)
        /\ LET g == get(ret.value.id)
               d == ret.args.create_dict
           IN /\ g.error = ""
              /\ g.value # None
              /\ g.value.id = ret.value.id
              /\ \A k \in DOMAIN d \ {"id"} :
                    /\ g.value[k] = AsStored(k, d[k])
                    /\ ret.value[k] = AsStored(k, d[k])

\* a create without id of an upper-case e-mail, with is_superuser supplied,
\* into a table that holds another user
C1_Witness ==
    /\ ret.op = "create" /\ ret.error = ""
    /\ ~Has(ret.args.create_dict, "id")
    /\ ret.args.create_dict.email = <<"A", "B">>
    /\ Has(ret.args.create_dict, "is_superuser")
    /\ Cardinality(DOMAIN users) = 2

\* C2: get_by_email returns a user whose stored e-mail is the lowercased
\* argument whenever the table holds one, whatever else it holds, and None
\* only when no stored user has that e-mail.
C2_EmailLookupFindsUser ==
    (ret.op = "get_by_email" /\ Works) =>
        LET e == Lower(ret.args.email)
        IN /\ ret.error = ""
           /\ IF \E k \in DOMAIN users : users[k].email = e
              THEN ret.value # None /\ ret.value.email = e
              ELSE ret.value = None

\* C3: update is a shallow merge.  For a user in the table, every field of
\* update_dict has the given value (the e-mail lowercased) in the stored item
\* and in the returned entity, every other field keeps its value, and no
\* other item changes; for a user not in the table update raises and the
\* table is unchanged.
C3_UpdateShallowMerge ==
    [][(ret'.op = "update" /\ Works /\ extract_id_from_user(ret'.args.user) # None) =>
        LET uid == extract_id_from_user(ret'.args.user)
            changes == ret'.args.update_dict
        IN IF uid \in DOMAIN users
           THEN /\ ret'.error = ""
                /\ DOMAIN users' = DOMAIN users
                /\ \A k \in DOMAIN users \ {uid} : users'[k] = users[k]
                /\ DOMAIN users'[uid] = DOMAIN users[uid] \cup DOMAIN changes
                /\ \A k \in DOMAIN users'[uid] :
                      LET v == IF k \in DOMAIN changes THEN AsStored(k, changes[k])
                               ELSE users[uid][k]
                      IN /\ users'[uid][k] = v
                         /\ k # "id" => ret'.value[k] = v
                /\ ret'.value.id = U(uid.str)
           ELSE /\ ret'.error = "ValueError: User not found"
                /\ users' = users
                /\ \A i \in DOMAIN ret'.log : ret'.log[i][2] # "put_item"
      ]_vars

\* an update of e-mail alone, to an upper-case spelling, of a user stored with
\* is_superuser, in a table that holds another user
C3_Witness ==
    /\ ret.op = "update" /\ ret.error = ""
    /\ DOMAIN ret.args.update_dict = {"email"}
    /\ ret.args.update_dict.email = <<"A", "B">>
    /\ ret.value.is_superuser
    /\ Cardinality(DOMAIN users) = 2

\* C4: delete is unconditional and idempotent.  After delete(user) a get of
\* the id returns None; a delete of an absent id raises nothing and leaves
\* the table as it was; no other item is removed or changed.
C4_DeleteIdempotent ==
    [][(ret'.op = "delete" /\ Works /\ extract_id_from_user(ret'.args.user) # None) =>
        LET uid == extract_id_from_user(ret'.args.user)
        IN /\ ret'.error = ""
           /\ item_to_user(get_item(users', uid)) = [error |-> "", value |-> None]
           /\ uid \notin DOMAIN users => users' = users
           /\ DOMAIN users' = DOMAIN users \ {uid}
           /\ \A k \in DOMAIN users' : users'[k] = users[k]
      ]_vars

\* a delete of a stored user that leaves another user in the table
C4_Witness ==
    /\ ret.op = "delete" /\ ret.error = ""
    /\ ret.log # <<>>
    /\ Cardinality(DOMAIN users) = 1
    /\ extract_id_from_user(ret.args.user) \notin DOMAIN users


\* C16: in every reachable state, after any sequence of user creates and
\* updates with e-mails of any case, the e-mail of every item of the users
\* table equals its own lowercase form.
C16_StoredEmailIsLower ==
    \A k \in DOMAIN users :
        Has(users[k], "email") => users[k].email = Lower(users[k].email)

\* a user created with an upper-case e-mail was then updated with another
\* upper-case e-mail
C16_Witness ==
    /\ ret.op = "update" /\ ret.error = ""
    /\ Has(ret.args.update_dict, "email")
    /\ ret.args.update_dict.email = <<"A", "B">>
    /\ \E k \in DOMAIN users : users[k].email = <<"a", "b">>
    /\ \E k \in DOMAIN users : users[k].email = <<"b", "b">>

---------------------------------------------------------------------------
(* Properties of the access token store (TokenSpec) *)

\* the token value a create is for, when its fields carry one
TokenGiven(create_dict) == Has(create_dict, "token") /\ create_dict.token # None

\* C5: token create is guarded by uniqueness.  A create whose token value is
\* already in the table raises the "already exists" error and leaves the
\* stored record as it was; a create whose token value is not in the table
\* succeeds and stores the record under that token.
C5_CreateGuarded ==
    [][(ret'.op = "access_token.create" /\ Works) =>
        LET d == ret'.args.create_dict
            t == IF TokenGiven(d) THEN d.token
                 ELSE CHOOSE k \in TokenValues : k \in DOMAIN tokens' \ DOMAIN tokens
        IN IF TokenGiven(d) /\ t \in DOMAIN tokens
           THEN /\ ret'.error = "ValueError: Token already exists."
                /\ ret'.value = None
                /\ tokens' = tokens
           ELSE /\ ret'.error = ""
                /\ DOMAIN tokens' = DOMAIN tokens \cup {t}
                /\ \A k \in DOMAIN tokens : tokens'[k] = tokens[k]
                /\ tokens'[t].token = t
                /\ tokens'[t].user_id = ensure_id_str(d.user_id)
                /\ IsIso(tokens'[t].created_at)
                /\ ret'.value.token = t
                /\ ret'.value.user_id = d.user_id
      ]_vars

\* a create refused for a token stored for another user: the stored record
\* still names its own user
C5_Witness ==
    /\ ret.op = "access_token.create"
    /\ ret.error = "ValueError: Token already exists."
    /\ tokens[ret.args.create_dict.token].user_id # ensure_id_str(ret.args.create_dict.user_id)

\* C6: for a stored token created at c, get_by_token(token, max_age = m)
\* returns None when c < m and the token when c >= m, also when c = m;
\* without max_age it returns the token whatever c is; for a token value that
\* is not stored it returns None.
C6_MaxAge ==
    (ret.op = "access_token.get_by_token" /\ Works) =>
        LET t == ret.args.token
            m == ret.args.max_age
        IN /\ ret.error = ""
           /\ IF t \notin DOMAIN tokens THEN ret.value = None
              ELSE LET c == tokens[t].created_at.iso
                   IN IF m # None /\ c < m.dt THEN ret.value = None
                      ELSE /\ ret.value # None
                           /\ ret.value.token = t
                           /\ ret.value.created_at = Dt(c)
                           /\ ret.value.user_id = U(tokens[t].user_id.str)

\* a lookup with max_age equal to the creation time, which returns the token
C6_Witness ==
    /\ ret.op = "access_token.get_by_token"
    /\ ret.args.max_age # None
    /\ ret.args.token \in DOMAIN tokens
    /\ tokens[ret.args.token].created_at.iso = ret.args.max_age.dt
    /\ ret.args.max_age.dt > 0
    /\ ret.value # None

\* C10: token update and token delete are guarded by existence.  For a token
\* value that is not in the table each raises the "does not exist" error and
\* leaves the table unchanged; for a token in the table update replaces that
\* item by the merged fields and delete removes that item and no other.
C10_UpdateDeleteGuarded ==
    [][/\ (ret'.op = "access_token.update" /\ Works) =>
            LET a == ret'.args.access_token
                changes == ret'.args.update_dict
                t == a.token
                Merged(k) == IF k \in DOMAIN changes THEN changes[k] ELSE a[k]
            IN IF t \notin DOMAIN tokens
               THEN /\ ret'.error = "ValueError: Token does not exist."
                    /\ tokens' = tokens
               ELSE /\ ret'.error = ""
                    /\ DOMAIN tokens' = DOMAIN tokens
                    /\ \A k \in DOMAIN tokens \ {t} : tokens'[k] = tokens[k]
                    /\ tokens'[t] = [token |-> t,
                                     user_id |-> ensure_id_str(Merged("user_id")),
                                     created_at |-> Iso(Merged("created_at").dt)]
                    /\ ret'.value = [token |-> t, user_id |-> Merged("user_id"),
                                     created_at |-> Merged("created_at")]
       /\ (ret'.op = "access_token.delete" /\ Works /\ ret'.args.access_token.token # None) =>
            LET t == ret'.args.access_token.token
            IN IF t \notin DOMAIN tokens
               THEN /\ ret'.error = "ValueError: Token does not exist."
                    /\ tokens' = tokens
               ELSE /\ ret'.error = ""
                    /\ DOMAIN tokens' = DOMAIN tokens \ {t}
                    /\ \A k \in DOMAIN tokens' : tokens'[k] = tokens[k]
      ]_vars

\* an update that changed the user of a stored token, beside another token
C10_Witness ==
    /\ ret.op = "access_token.update" /\ ret.error = ""
    /\ Has(ret.args.update_dict, "user_id")
    /\ tokens[ret.args.access_token.token].user_id = S(2)
    /\ Cardinality(DOMAIN tokens) = 2

\* C11: over any sequence of token creates, updates and deletes,
\* get_by_token(t) without max_age returns a token exactly when the last
\* successful create of t has not been followed by a successful delete of t,
\* and the created_at and user_id it returns are those of the latest
\* successful create or update of t.
C11_GetFollowsHistory ==
    (ret.op = "access_token.get_by_token" /\ ret.args.max_age = None /\ ret.error = "") =>
        LET t == ensure_token(ret.args.token)
        IN /\ (ret.value # None) <=> (t \in DOMAIN written)
           /\ (ret.value # None) =>
                 /\ ret.value.created_at = written[t].created_at
                 /\ ret.value.user_id = written[t].user_id

\* a get_by_token that returns what an update wrote, while the other token
\* was created and deleted again
C11_Witness ==
    /\ ret.op = "access_token.get_by_token" /\ ret.args.max_age = None
    /\ ret.value # None
    /\ ret.value.user_id = U(2) /\ ret.value.created_at = Dt(MaxTime)
    /\ DOMAIN written = {ensure_token(ret.args.token)}
    /\ DOMAIN tokens = DOMAIN written

\* the time a created_at value stands for, whatever its type
TimeOf(v) == IF IsIso(v) THEN v.iso ELSE v.dt

\* C12: token create stamps created_at only when the fields carry none: a
\* supplied created_at is kept in the stored record and in the returned
\* entity, and only without one is it the time of the call; a supplied token
\* value is kept as well.
C12_CreateKeepsCreatedAt ==
    (ret.op = "access_token.create" /\ ret.error = "") =>
        LET d == ret.args.create_dict
            t == ensure_token(ret.value.token)
            expected == IF Has(d, "created_at") THEN TimeOf(d.created_at)
                        ELSE ret.args.clock
        IN /\ t \in DOMAIN tokens
           /\ TimeOf(tokens[t].created_at) = expected
           /\ TimeOf(ret.value.created_at) = expected
           /\ TokenGiven(d) => ret.value.token = d.token

---------------------------------------------------------------------------
(* Properties of the OAuth operations (NoOAuthSpec, OAuthSpec) *)

OAuthOps == {"get_by_oauth_account", "add_oauth_account", "update_oauth_account"}

\* the store was constructed without an OAuth table: class or name missing
NoOAuthTable == cfg.oauth_account_table = None \/ cfg.oauth_account_table_name = None

\* C9: on a store constructed without an OAuth table class or without an
\* OAuth table name, get_by_oauth_account, add_oauth_account and
\* update_oauth_account raise NotImplementedError for every argument, return
\* nothing, acquire no table handle and read or write no table.
C9_OAuthNotConfigured ==
    [][(ret'.op \in OAuthOps /\ NoOAuthTable) =>
        /\ ret'.error = "NotImplementedError"
        /\ ret'.value = None
        /\ ret'.log = <<>>
        /\ users' = users
        /\ oauth' = oauth
      ]_vars

\* update_oauth_account of an account with an id, for a user with an id, on a
\* store that has the table class and a region but no table name, the users
\* table holding a user
C9_Witness ==
    /\ ret.op = "update_oauth_account"
    /\ ret.error = "NotImplementedError"
    /\ cfg.oauth_account_table # None
    /\ cfg.region # None
    /\ ret.args.oauth_account.id # None
    /\ ret.args.user.id # None
    /\ DOMAIN users # {}

\* the stored oauth items linked to (oauth_name, account_id)
LinkedItems(oauth_name, account_id) ==
    {k \in DOMAIN oauth : oauth[k].oauth_name = oauth_name /\ oauth[k].account_id = account_id}

\* C7: a get_by_oauth_account(oauth_name, account_id) made after an
\* add_oauth_account for an existing user has succeeded returns the owning
\* user, whatever other accounts the OAuth table holds (no other item having
\* that pair); for a pair no stored item has it returns None.
C7_OAuthLookupFindsOwner ==
    [][(ret'.op = "get_by_oauth_account" /\ Works /\ ~NoOAuthTable) =>
        LET linked == LinkedItems(ret'.args.oauth, ret'.args.account_id)
        IN /\ linked = {} => (ret'.error = "" /\ ret'.value = None)
           /\ ( /\ ret.op = "add_oauth_account" /\ ret.error = ""
                /\ ret.args.create_dict.oauth_name = ret'.args.oauth
                /\ ret.args.create_dict.account_id = ret'.args.account_id
                /\ Cardinality(linked) = 1 )
              => ( /\ ret'.error = ""
                   /\ ret'.value # None
                   /\ ret'.value.id = ret.args.user.id )
      ]_vars

\* the stored oauth items of a user
AccountsOf(user_id) == {k \in DOMAIN oauth : oauth[k].user_id = user_id}
AccountIdsIn(user) == {user.oauth_accounts[i].id : i \in DOMAIN user.oauth_accounts}

\* C8: the users the store returns carry their linked OAuth accounts: the
\* user returned by add_oauth_account (the OAuth class building an object
\* from the item), by update_oauth_account, by get and by get_by_email lists
\* exactly the accounts stored for that user, each once and with its stored
\* fields (so k accounts after k adds, and the changed field after an
\* update_oauth_account).
C8_UsersCarryAccounts ==
    (/\ ret.op \in {"add_oauth_account", "update_oauth_account", "get", "get_by_email"}
     /\ ret.op = "add_oauth_account" => ret.args.constructs
     /\ ~NoOAuthTable /\ ret.error = "" /\ ret.value # None) =>
        LET owned == AccountsOf(ensure_id_str(ret.value.id))
        IN /\ Len(ret.value.oauth_accounts) = Cardinality(owned)
           /\ AccountIdsIn(ret.value) = owned
           /\ \A i \in DOMAIN ret.value.oauth_accounts :
                 ret.value.oauth_accounts[i] = oauth[ret.value.oauth_accounts[i].id]

---------------------------------------------------------------------------
(* Properties of concurrent callers of the access token store (TokenRaceSpec) *)

AllReturned == Returned = Callers
TokenOf(call) ==
    IF call.op = "access_token.create" THEN call.args.create_dict.token
    ELSE call.args.access_token.token
AlreadyExists == "ValueError: Token already exists."
DoesNotExist == "ValueError: Token does not exist."

\* the callers of whom one succeeded and every other one failed with `err`
Winners(err) ==
    {w \in Callers : /\ inflight[w].error = ""
                      /\ \A c \in Callers \ {w} : inflight[c].error = err}

\* C13: when all callers create the same token value on an empty slot, then
\* under every interleaving exactly one create succeeds, every other one
\* fails with "already exists", and the stored record is the one the
\* succeeding call wrote; when all callers delete one existing token,
\* exactly one delete succeeds.
C13_OneCreateOneDeleteWins ==
    AllReturned =>
        \A t \in TokenValues :
            /\ ( /\ t \notin DOMAIN SeededTokens
                 /\ \A c \in Callers : /\ inflight[c].op = "access_token.create"
                                        /\ TokenOf(inflight[c]) = t ) =>
                    /\ Cardinality(Winners(AlreadyExists)) = 1
                    /\ \A w \in Winners(AlreadyExists) :
                          /\ t \in DOMAIN tokens
                          /\ tokens[t].user_id =
                                 ensure_id_str(inflight[w].args.create_dict.user_id)
                          /\ inflight[w].value.user_id = inflight[w].args.create_dict.user_id
            /\ ( /\ t \in DOMAIN SeededTokens
                 /\ \A c \in Callers : /\ inflight[c].op = "access_token.delete"
                                        /\ TokenOf(inflight[c]) = t ) =>
                    /\ Cardinality(Winners(DoesNotExist)) = 1
                    /\ t \notin DOMAIN tokens

\* all callers created TOKEN, all of them were in their table block before
\* any returned, and the last caller won
C13_Witness ==
    /\ AllReturned
    /\ \A c \in Callers : /\ inflight[c].op = "access_token.create"
                           /\ TokenOf(inflight[c]) = S("TOKEN")
                           /\ inflight[c].after = {}
    /\ inflight[NumCallers].error = ""
    /\ tokens[S("TOKEN")].user_id = S(NumCallers)

\* C20: an update racing with a delete of the same existing token leaves no
\* phantom row: under every interleaving of one update and one delete of the
\* token, once both have returned the token is not in the table; the update
\* either ran first or failed with "does not exist".
C20_NoPhantomRow ==
    AllReturned =>
        \A t \in DOMAIN SeededTokens :
            LET on == {c \in Callers : TokenOf(inflight[c]) = t}
            IN \A u, d \in on :
                 ( /\ on = {u, d}
                   /\ inflight[u].op = "access_token.update"
                   /\ inflight[d].op = "access_token.delete" ) =>
                     /\ t \notin DOMAIN tokens
                     /\ inflight[d].error = ""
                     /\ inflight[u].error \in {"", DoesNotExist}

\* the update entered its table block before the delete returned, and failed
\* because the delete went first
C20_Witness ==
    /\ AllReturned
    /\ \E u, d \in Callers :
          /\ {c \in Callers : TokenOf(inflight[c]) = S("OTHER_TOKEN")} = {u, d}
          /\ inflight[u].op = "access_token.update"
          /\ inflight[d].op = "access_token.delete"
          /\ inflight[u].after = {}
          /\ inflight[u].error = DoesNotExist
          /\ inflight[d].error = ""

---------------------------------------------------------------------------
(* Properties of concurrent callers of the user store (UserRaceSpec) *)

\* the stored item of user 1 has every field of the caller's update_dict
Carries(c) ==
    /\ S(1) \in DOMAIN users
    /\ \A k \in DOMAIN inflight[c].args.update_dict :
          /\ Has(users[S(1)], k)
          /\ users[S(1)][k] = AsStored(k, inflight[c].args.update_dict[k])

\* a and b are the only callers on the stored user, both update it, and
\* they change disjoint fields
TwoUpdates(a, b) ==
    /\ a # b
    /\ {c \in Callers : inflight[c].args.user = [id |-> U(1)]} = {a, b}
    /\ inflight[a].op = "update" /\ inflight[b].op = "update"
    /\ DOMAIN inflight[a].args.update_dict \cap DOMAIN inflight[b].args.update_dict = {}

\* one of the two had returned before the other entered its table block
OneAfterTheOther(a, b) == a \in inflight[b].after \/ b \in inflight[a].after

\* C19: two concurrent updates of one user that change disjoint fields both
\* return without error under every interleaving, and the stored item has
\* the change of at least one of them; run one after the other the stored
\* item has both changes.  (That an interleaving loses one change is the
\* state C19_Witness.)
C19_UpdateLastWriteWins ==
    AllReturned =>
        \A a, b \in Callers :
            TwoUpdates(a, b) =>
                /\ inflight[a].error = "" /\ inflight[b].error = ""
                /\ Carries(a) \/ Carries(b)
                /\ OneAfterTheOther(a, b) => (Carries(a) /\ Carries(b))

\* both updates returned without error and the stored item has lost the
\* change of one of them
C19_Witness ==
    /\ AllReturned
    /\ \E a, b \in Callers :
          /\ TwoUpdates(a, b)
          /\ inflight[a].error = "" /\ inflight[b].error = ""
          /\ ~Carries(a) /\ Carries(b)

\* u and d are the only callers on the stored user: u updates it, d deletes it
UpdateAndDelete(u, d) ==
    /\ u # d
    /\ {c \in Callers : inflight[c].args.user = [id |-> U(1)]} = {u, d}
    /\ inflight[u].op = "update" /\ inflight[d].op = "delete"

\* C21 as stated: under every interleaving of one update and one delete of
\* an existing user, once both have returned (the update returning or
\* raising "not found") the users table holds no item with the user's id.
C21_UpdateNeverRevives ==
    AllReturned =>
        \A u, d \in Callers :
            UpdateAndDelete(u, d) =>
                /\ inflight[u].error \in {"", "ValueError: User not found"}
                /\ inflight[d].error = ""
                /\ S(1) \notin DOMAIN users

---------------------------------------------------------------------------
(* Properties of malformed arguments, keys and connections *)

\* the errors raised where an identifier is extracted from an entity
NoIdErrors ==
    {"ValueError: User object has no 'id' field",
     "ValueError: oauth_account has no 'id' field",
     "ValueError: access_token has no 'token' field"}
EntityOps ==
    {"update", "delete", "add_oauth_account", "update_oauth_account", "access_token.delete"}

\* the entity arguments of the last call that carry no identifier
NoIdArgs(call) ==
    {k \in DOMAIN call.args \cap {"user", "oauth_account"} : DictGet(call.args[k], "id") = None}
    \cup {k \in DOMAIN call.args \cap {"access_token"} : DictGet(call.args[k], "token") = None}

\* C14: an entity argument from which no identifier can be extracted makes
\* user update, user delete, add_oauth_account, update_oauth_account (user
\* and oauth_account argument) and token delete fail, and when the "no id"
\* error is raised no table call has been issued and every table is as it
\* was before the call.
C14_NoIdFailsBeforeAnyTableCall ==
    [][ (ret'.op \in EntityOps) =>
          /\ (NoIdArgs(ret') # {}) => ret'.error # ""
          /\ (ret'.error \in NoIdErrors) =>
                /\ ret'.log = <<>>
                /\ users' = users /\ oauth' = oauth /\ tokens' = tokens ]_vars

\* every item of the table is stored under a str that is its key attribute
StrKeys(table, pk) ==
    \A k \in DOMAIN table : IsStr(k) /\ Has(table[k], pk) /\ table[k][pk] = k

Opened(log) == {i \in DOMAIN log : log[i] = <<"session", "open">>}
Closed(log) == {i \in DOMAIN log : log[i] = <<"session", "close">>}
TableUses(log) == {i \in DOMAIN log : log[i][1] # "session"}
OpenAfter(log, i) ==
    Cardinality({j \in Opened(log) : j <= i}) - Cardinality({j \in Closed(log) : j <= i})

C18_NoRegionNoTable ==
    [][ (cfg.resource = None /\ cfg.region = None) =>
          /\ ret'.error \in {RegionError} \cup NoIdErrors
          /\ (NoIdArgs(ret') = {}) => ret'.error = RegionError
          /\ ret'.value = None
          /\ ret'.log = <<>>
          /\ users' = users /\ oauth' = oauth /\ tokens' = tokens ]_vars

\* add_oauth_account of a well-formed user on a store without resource and
\* region raised the configuration error
C18_Witness ==
    /\ cfg.resource = None /\ cfg.region = None
    /\ ret.op = "add_oauth_account"
    /\ NoIdArgs(ret) = {}
    /\ ret.error = RegionError

---------------------------------------------------------------------------
(* No rollback in the OAuth operations (StoresSpec) *)

\* the positions of the calls on one table in a call's log
CallsOn(log, call) == {i \in DOMAIN log : log[i] = call}

\* the store can reach its tables and the call names a user
Reachable == IsUserStore /\ ~OAuthNotConfigured /\ ~TableNoRegion

\* add_oauth_account for a user whose id is in no item of the users table,
\* with fields that carry no id or a str id
AddForMissingUser ==
    /\ Reachable
    /\ ret'.op = "add_oauth_account"
    /\ extract_id_from_user(ret'.args.user) # None
    /\ ensure_id_str(extract_id_from_user(ret'.args.user)) \notin DOMAIN users
    /\ ~IsUUID(DictGet(ret'.args.create_dict, "id"))

\* update_oauth_account for an OAuth id that is in no item of the OAuth table
UpdateOfMissingAccount ==
    /\ Reachable
    /\ ret'.op = "update_oauth_account"
    /\ oauth_id_of(ret'.args.oauth_account) # None
    /\ ensure_id_str(oauth_id_of(ret'.args.oauth_account)) \notin DOMAIN oauth

\* the keys under which a call may have written its OAuth item: the id its
\* fields carry, or else an id that no item of the table had
KeysOf(create_dict) ==
    IF Has(create_dict, "id") /\ create_dict.id # None
    THEN {create_dict.id} ELSE OAuthStrIds \ DOMAIN oauth

\* C22: add_oauth_account for a user whose id is not in the users table
\* writes the OAuth item first, then fails to re-fetch the user and raises,
\* and the written OAuth item stays in the OAuth table; update_oauth_account
\* for an OAuth id that is not in the OAuth table raises at the read step
\* and writes to no table.
C22_NoRollback ==
    [][/\ AddForMissingUser =>
            /\ ret'.error = "ValueError: Refreshed user is None"
            /\ \E i \in CallsOn(ret'.log, <<"oauth", "put_item">>) :
                  \E j \in CallsOn(ret'.log, <<"users", "get_item">>) : i < j
            /\ \E k \in KeysOf(ret'.args.create_dict) :
                  /\ k \in DOMAIN oauth'
                  /\ oauth'[k].id = k
                  /\ oauth'[k].user_id =
                         ensure_id_str(extract_id_from_user(ret'.args.user))
                  /\ \A f \in DOMAIN ret'.args.create_dict \ {"id"} :
                         oauth'[k][f] = ret'.args.create_dict[f]
                  /\ \A other \in DOMAIN oauth \ {k} :
                         other \in DOMAIN oauth' /\ oauth'[other] = oauth[other]
            /\ users' = users
       /\ UpdateOfMissingAccount =>
            /\ ret'.error = "ValueError: OAuth account not found"
            /\ CallsOn(ret'.log, <<"oauth", "get_item">>) # {}
            /\ \A i \in TableUses(ret'.log) :
                  ret'.log[i] \in {<<"oauth", "Table">>, <<"oauth", "get_item">>}
            /\ oauth' = oauth /\ users' = users /\ tokens' = tokens]_vars

\* add_oauth_account has raised for a user that is not stored, and the
\* OAuth item it wrote for that user is in the OAuth table
C22_Witness ==
    /\ IsUserStore
    /\ ret.op = "add_oauth_account"
    /\ ret.error = "ValueError: Refreshed user is None"
    /\ users = EmptyDict
    /\ \E k \in DOMAIN oauth :
          /\ oauth[k].user_id = ensure_id_str(extract_id_from_user(ret.args.user))
          /\ oauth[k].account_id = ret.args.create_dict.account_id

====
